---- MODULE Spec2Model ----
(***************************************************************************)
(* CryptoTaxes: the price resolver of gemini_reader.py (get_usd_per_quote, *)
(* get_btc_price, _fetch_candles, _closest_close, the module-level         *)
(* _PRICE_CACHE), the order normalizer fix_orders of CryptoTaxes.py and    *)
(* the __main__ pipeline that hands the normalized orders to               *)
(* cost_basis.get_cost_basis.                                              *)
(*                                                                         *)
(* Numbers.  Python floats are modelled in fixed point: every quantity     *)
(* (cost, amount, price) is an integer count of "fine units".  One unit of *)
(* the 10th decimal place (the place round(x, 10) rounds to) is Q fine     *)
(* units and 1.0 is One = Q * K fine units.  A float product or quotient   *)
(* is the exact result rounded to the nearest fine unit (ties to even), as *)
(* IEEE arithmetic rounds to the nearest representable value.              *)
(***************************************************************************)
EXTENDS Integers, Sequences, FiniteSets, TLC

\* ------------------------------------------------------------------ bounds
Q == 4            \* fine units per unit of the 10th decimal place
K == 2            \* 10th-decimal units per 1.0 (10^10 in the program)
MaxQueries == 2   \* price queries of one resolver run (SpecResolver)
MaxOdd == 1       \* odd upstream fetches of a behaviour: fetches with a failing
                  \* request, or answered by candles that hold a zero close
MaxOrders == 2    \* raw orders handed to one fix_orders call

One == Q * K      \* the float 1.0

\* ------------------------------------------------------ program constants
MAX_ATTEMPTS == 3 \* for attempt in range(3)

\* the granularity ladder ("1m", "5m", "15m", "1h", "6h", "1d")
LADDER == <<"1m", "5m", "15m", "1h", "6h", "1d">>

\* the stablecoin set of get_usd_per_quote
STABLECOINS == {"USDT", "USDC", "DAI"}

\* --------------------------------------------------------------- strings
\* str.upper() and str.lower() on the currency codes and sides that occur
Upper(s) ==
    CASE s = "usd" -> "USD" [] s = "btc" -> "BTC" [] s = "eth" -> "ETH"
      [] s = "usdt" -> "USDT" [] s = "bcc" -> "BCC" [] s = "bch" -> "BCH"
      [] s = "ltc" -> "LTC" [] s = "buy" -> "BUY" [] s = "sell" -> "SELL"
      [] s = "hold" -> "HOLD"
      [] OTHER -> s

Lower(s) ==
    CASE s = "USD" -> "usd" [] s = "BTC" -> "btc" [] s = "ETH" -> "eth"
      [] s = "USDT" -> "usdt" [] s = "BCC" -> "bcc" [] s = "BCH" -> "bch"
      [] s = "LTC" -> "ltc" [] s = "BUY" -> "buy" [] s = "SELL" -> "sell"
      [] s = "Buy" -> "buy" [] s = "Sell" -> "sell" [] s = "HOLD" -> "hold"
      [] OTHER -> s

\* ---------------------------------------------------------------- floats
\* n / d rounded to the nearest integer, ties to the even one (d > 0)
RoundDiv(n, d) ==
    LET q == n \div d
        r == n % d
    IN  IF 2 * r < d THEN q
        ELSE IF 2 * r > d THEN q + 1
        ELSE IF q % 2 = 0 THEN q ELSE q + 1

\* float product and quotient of two fixed-point values
FMul(a, b) == RoundDiv(a * b, One)
FDiv(a, b) == RoundDiv(a * One, b)

\* round(x, 10)
Round10(x) == RoundDiv(x, Q) * Q

\* ------------------------------------------------------------ candle data
\* a candle is <<timestamp_ms, close>> (fields 0 and 4 of the v2 candle)
NoCandles == <<>>
FlatCandles == << <<1000, One + 1>> >>
GapCandles == << <<1000, 0>>, <<2000, 2 * One>> >>

Payloads == {NoCandles, FlatCandles, GapCandles}

Abs(x) == IF x < 0 THEN -x ELSE x

RECURSIVE BestCandleLast(_, _, _, _)
\* the loop taking a candle that is as close as the best so far
BestCandleLast(candles, ts_ms, i, best) ==
    IF i > Len(candles) THEN best
    ELSE LET dist == Abs(candles[i][1] - ts_ms)
         IN  IF best = 0 \/ dist <= Abs(candles[best][1] - ts_ms)
             THEN BestCandleLast(candles, ts_ms, i + 1, i)
             ELSE BestCandleLast(candles, ts_ms, i + 1, best)

RECURSIVE BestCandle(_, _, _, _)
\* the loop of _closest_close from candle i on, best = 0 standing for None
BestCandle(candles, ts_ms, i, best) ==
    IF i > Len(candles) THEN best
    ELSE LET dist == Abs(candles[i][1] - ts_ms)
         IN  IF best = 0 \/ dist < Abs(candles[best][1] - ts_ms)
             THEN BestCandle(candles, ts_ms, i + 1, i)
             ELSE BestCandle(candles, ts_ms, i + 1, best)

\* _closest_close(candles, ts_ms)
ClosestClose(candles, ts_ms) ==
    IF candles = <<>> THEN 0
    ELSE candles[BestCandle(candles, ts_ms, 1, 0)][2]

\* ------------------------------------------------------------------ state
VARIABLES
    PRICE_CACHE,  \* _PRICE_CACHE: (symbol, tf) -> candles
    rs,           \* the resolver's call frame (get_usd_per_quote / get_btc_price)
    reqs,         \* ghost: upstream requests issued so far, per cache key
    trace,        \* ghost: the _fetch_candles / ticker calls of the current query
    oddLeft,      \* odd upstream fetches the environment may still produce
    nq,           \* price queries issued so far (SpecResolver)
    orders,       \* fix_orders: the raw orders it is called with
    run,          \* fix_orders: how many calls were started
    idx,          \* fix_orders: position of "for order in orders" (1-based)
    fpc,          \* fix_orders: "idle", "loop", "price", "fallback", "done", "raised"
    buys_fixed,   \* fix_orders: buys_fixed
    sells_fixed,  \* fix_orders: sells_fixed
    buys_src,     \* ghost: for each element of buys_fixed, its raw order's index
    sells_src,    \* ghost: for each element of sells_fixed, its raw order's index
    diag,         \* ghost: what the call printed, [idx, kind]
    px_log,       \* ghost: what the resolver returned to the call, [idx, entry, ret]
    out1,         \* ghost: the first call's result and resolver returns
    args,         \* __main__: the parsed command line
    mpc,          \* __main__: "start", "fix_buys", "fix_sells", "done"
    gemini,       \* __main__: what gemini_reader.get_buys_sells returns
    saved,        \* __main__: what save.p / save_everything.p hold
    basis_file,   \* __main__: the records of the -costbasis file
    main_buys_fixed,  \* __main__: buys_fixed
    main_sells_fixed, \* __main__: sells_fixed
    buys_sorted,  \* __main__: buys_sorted
    sells_sorted, \* __main__: sells_sorted
    cb_call,      \* ghost: the arguments of the cost_basis.get_cost_basis call
    alloc,        \* the frame of a cost_basis.get_cost_basis call
    fc,           \* the frame of a _fetch_candles call
    cc,           \* the frame of a _closest_close call
    tx,           \* the frame of a get_buys_sells call
    hp,           \* the frame of a _http_post call
    last_nonce_ms, \* _last_nonce_ms
    issued        \* ghost: the nonces _next_nonce_ms returned, oldest first

rvars == <<PRICE_CACHE, rs, reqs, trace, oddLeft>>
fvars == <<orders, run, idx, fpc, buys_fixed, sells_fixed, buys_src, sells_src,
           diag, px_log, out1>>
mvars == <<args, mpc, gemini, saved, basis_file, main_buys_fixed, main_sells_fixed,
           buys_sorted, sells_sorted, cb_call>>

\* __main__ before it runs, with nothing on the command line
callvars == <<alloc, fc, cc, tx, hp, last_nonce_ms, issued>>

\* no call of the functions modelled on their own is in progress
AllocIdle == alloc = [pc |-> "idle"]
FetchIdle == fc = [pc |-> "idle"]
ClosestIdle == cc = [pc |-> "idle"]
TxnIdle == tx = [pc |-> "idle"]
PostIdle == hp = [pc |-> "idle"]
NonceIdle == last_nonce_ms = 0 /\ issued = <<>>
CallsIdle == AllocIdle /\ FetchIdle /\ ClosestIdle /\ TxnIdle /\ PostIdle /\ NonceIdle

MainIdle ==
    /\ args = [download |-> FALSE, startyear |-> 0, costbasis |-> ""]
    /\ mpc = "start"
    /\ gemini = [buys |-> <<>>, sells |-> <<>>]
    /\ saved = [found |-> FALSE, buys |-> <<>>, sells |-> <<>>]
    /\ basis_file = <<>>
    /\ main_buys_fixed = <<>>
    /\ main_sells_fixed = <<>>
    /\ buys_sorted = <<>>
    /\ sells_sorted = <<>>
    /\ cb_call = [made |-> FALSE, sells |-> <<>>, buys |-> <<>>]

\* ------------------------------------------------------- upstream outcomes
FaultKinds == {"nonlist", "http429", "http4xx", "neterr"}

ListOutcomes == {[kind |-> "list", data |-> p] : p \in Payloads}
FaultOutcomes == {[kind |-> k, data |-> <<>>] : k \in FaultKinds}
Outcomes == ListOutcomes \cup FaultOutcomes

\* what the upstream answers to the requests of one _fetch_candles call:
\* faults, then either a list or a fault on the last attempt
AttemptScripts ==
    {s \in UNION {[1..n -> Outcomes] : n \in 1..MAX_ATTEMPTS} :
        /\ \A i \in 1..(Len(s) - 1) : s[i].kind # "list"
        /\ Len(s) < MAX_ATTEMPTS => s[Len(s)].kind = "list"}

HasZeroClose(p) == \E i \in 1..Len(p) : p[i][2] <= 0

\* whether a script is an oddity: some request of it fails, or the list it
\* ends with holds a zero close
ScriptOdd(s) ==
    IF \/ \E i \in 1..Len(s) : s[i].kind # "list"
       \/ HasZeroClose(s[Len(s)].data)
    THEN 1 ELSE 0

RECURSIVE FetchAttemptsRaise(_, _)
FetchAttemptsRaise(s, attempt) ==
    LET o == s[attempt + 1]
    IN  IF o.kind = "list"
        THEN [data |-> o.data, store |-> TRUE, nreq |-> attempt + 1, raised |-> FALSE]
        ELSE IF attempt = MAX_ATTEMPTS - 1
        THEN [data |-> <<>>, store |-> FALSE, nreq |-> attempt + 1,
              raised |-> o.kind # "nonlist"]
        ELSE FetchAttemptsRaise(s, attempt + 1)

RECURSIVE FetchAttempts(_, _)
\* the retry loop of _fetch_candles on a cache miss, from `attempt` on
FetchAttempts(s, attempt) ==
    LET o == s[attempt + 1]
    IN  IF o.kind = "list"
        \* isinstance(data, list): _PRICE_CACHE[key] = data; return data
        THEN [data |-> o.data, store |-> TRUE, nreq |-> attempt + 1, raised |-> FALSE]
        \* a non-list payload falls through to the next attempt and, after the
        \* last, to the final return []; an exception returns [] on attempt 2
        ELSE IF attempt = MAX_ATTEMPTS - 1
        THEN [data |-> <<>>, store |-> FALSE, nreq |-> attempt + 1, raised |-> FALSE]
        ELSE FetchAttempts(s, attempt + 1)

CacheHasNever(key) == FALSE

\* key in _PRICE_CACHE
CacheHas(key) == key \in DOMAIN PRICE_CACHE

\* _PRICE_CACHE[key] = data
CachePut(cache, key, data) ==
    [k \in DOMAIN cache \cup {key} |-> IF k = key THEN data ELSE cache[k]]

\* ---------------------------------------------------------------- resolver
IdleFrame ==
    [pc |-> "idle", entry |-> "", q |-> "", ts_ms |-> 0, tier |-> "",
     tf |-> 0, qbtc |-> 0, ret |-> 0]

\* the symbol a tier asks candles for: f"{q.lower()}usd", f"{q.lower()}btc", "btcusd"
TierSymbol(f) ==
    CASE f.tier \in {"stable", "direct"} -> <<Lower(f.q), "usd">>
      [] f.tier = "bridge" -> <<Lower(f.q), "btc">>
      [] OTHER -> <<"btc", "usd">>

\* key = (symbol.lower(), tf)
CacheKey(f) == <<TierSymbol(f)[1], TierSymbol(f)[2], LADDER[f.tf]>>

\* get_btc_price(ts), called directly
GetBtcPriceCall(t) ==
    [pc |-> "ladder", entry |-> "btc_price", q |-> "BTC", ts_ms |-> t * 1000,
     tier |-> "btc", tf |-> 1, qbtc |-> 0, ret |-> 0]

\* get_usd_per_quote(quote, ts) up to its first candle lookup
GetUsdPerQuoteCall(quote, t) ==
    LET q == Upper(quote)
        f == [pc |-> "ladder", entry |-> "usd_per_quote", q |-> q,
              ts_ms |-> t * 1000, tier |-> "direct", tf |-> 1, qbtc |-> 0, ret |-> 0]
    IN  IF q = "" \/ q = "USD" THEN [f EXCEPT !.pc = "ret", !.tier = "usd", !.tf = 0,
                                              !.ts_ms = 0, !.ret = One]
        ELSE IF q \in STABLECOINS THEN [f EXCEPT !.tier = "stable"]
        ELSE IF q = "BTC" THEN [f EXCEPT !.tier = "btc"]
        ELSE f

Return(f, v) == [f EXCEPT !.pc = "ret", !.ret = v]

\* the BTC walk giving up on the ladder at the first granularity without a price
LadderStepTickerEarly(f, px) ==
    IF px > 0
    THEN CASE f.tier = "bridge" -> [f EXCEPT !.tier = "bridge_btc", !.tf = 1, !.qbtc = px]
           [] f.tier = "bridge_btc" -> Return(f, FMul(f.qbtc, px))
           [] OTHER -> Return(f, px)
    ELSE IF f.tier \in {"btc", "bridge_btc"} THEN [f EXCEPT !.pc = "ticker"]
    ELSE IF f.tf < Len(LADDER) THEN [f EXCEPT !.tf = f.tf + 1]
    ELSE CASE f.tier = "stable" -> Return(f, One)
           [] f.tier = "direct" -> [f EXCEPT !.tier = "bridge", !.tf = 1]
           [] OTHER -> Return(f, 0)

LadderStepNoBridge(f, px) ==
    IF px > 0
    THEN CASE f.tier = "bridge" -> [f EXCEPT !.tier = "bridge_btc", !.tf = 1, !.qbtc = px]
           [] f.tier = "bridge_btc" -> Return(f, FMul(f.qbtc, px))
           [] OTHER -> Return(f, px)
    ELSE IF f.tf < Len(LADDER) THEN [f EXCEPT !.tf = f.tf + 1]
    ELSE CASE f.tier = "stable" -> Return(f, One)
           [] f.tier = "direct" -> Return(f, 0)
           [] f.tier = "bridge" -> Return(f, 0)
           [] OTHER -> [f EXCEPT !.pc = "ticker"]

\* one turn of a "for tf in (...)" loop, given the close the lookup produced
LadderStep(f, px) ==
    IF px > 0
    THEN CASE f.tier = "bridge" -> [f EXCEPT !.tier = "bridge_btc", !.tf = 1, !.qbtc = px]
           [] f.tier = "bridge_btc" -> Return(f, FMul(f.qbtc, px))
           [] OTHER -> Return(f, px)
    ELSE IF f.tf < Len(LADDER) THEN [f EXCEPT !.tf = f.tf + 1]
    ELSE CASE f.tier = "stable" -> Return(f, One)
           [] f.tier = "direct" -> [f EXCEPT !.tier = "bridge", !.tf = 1]
           [] f.tier = "bridge" -> Return(f, 0)
           [] OTHER -> [f EXCEPT !.pc = "ticker"]

TraceEntry(f, px, n) == [sym |-> TierSymbol(f), tf |-> f.tf, px |-> px, nreq |-> n]

\* _fetch_candles answered from _PRICE_CACHE, then _closest_close
FetchCandlesCached ==
    /\ rs.pc = "ladder"
    /\ CacheHas(CacheKey(rs))
    /\ LET px == ClosestClose(PRICE_CACHE[CacheKey(rs)], rs.ts_ms)
       IN  /\ rs' = LadderStep(rs, px)
           /\ trace' = Append(trace, TraceEntry(rs, px, 0))
    /\ UNCHANGED <<PRICE_CACHE, reqs, oddLeft>>

\* _fetch_candles on a cache miss (the upstream requests and their retries),
\* then _closest_close
FetchCandlesUpstream ==
    /\ rs.pc = "ladder"
    /\ ~CacheHas(CacheKey(rs))
    /\ \E s \in AttemptScripts :
        /\ ScriptOdd(s) <= oddLeft
        /\ LET key == CacheKey(rs)
               r == FetchAttempts(s, 0)
               px == ClosestClose(r.data, rs.ts_ms)
               had == IF key \in DOMAIN reqs THEN reqs[key] ELSE 0
           IN  /\ oddLeft' = oddLeft - ScriptOdd(s)
               /\ reqs' = CachePut(reqs, key, had + r.nreq)
               /\ PRICE_CACHE' = IF r.store THEN CachePut(PRICE_CACHE, key, r.data)
                                 ELSE PRICE_CACHE
               /\ trace' = Append(trace, TraceEntry(rs, px, r.nreq))
               /\ rs' = IF r.raised THEN [rs EXCEPT !.pc = "raised"]
                        ELSE LadderStep(rs, px)

\* the pubticker request of get_btc_price: an exception gives 0.0, a body
\* without "last" gives 0.0, otherwise float(data["last"])
TickerOutcomes == {"error", "nolast", "last"}
TickerLast == One + 3

TickerPrice(o) == IF o = "last" THEN TickerLast ELSE 0

Ticker ==
    /\ rs.pc = "ticker"
    /\ \E o \in TickerOutcomes :
        LET v == TickerPrice(o)
        IN  /\ rs' = Return(rs, IF rs.tier = "bridge_btc" THEN FMul(rs.qbtc, v) ELSE v)
            /\ trace' = Append(trace, [sym |-> <<"btc", "ticker">>, tf |-> 0,
                                       px |-> v, nreq |-> 1])
    /\ UNCHANGED <<PRICE_CACHE, reqs, oddLeft>>

Resolve == FetchCandlesCached \/ FetchCandlesUpstream \/ Ticker

\* ------------------------------------------------- a run of price queries
Currencies == {"USD", "usdt", "BTC", "ETH", ""}
Times == {1, 2}

InitResolver ==
    /\ PRICE_CACHE = <<>>
    /\ rs = IdleFrame
    /\ reqs = <<>>
    /\ trace = <<>>
    /\ oddLeft = MaxOdd
    /\ nq = 0
    /\ orders = <<>>
    /\ run = 0
    /\ idx = 0
    /\ fpc = "idle"
    /\ buys_fixed = <<>>
    /\ sells_fixed = <<>>
    /\ buys_src = <<>>
    /\ sells_src = <<>>
    /\ diag = <<>>
    /\ px_log = <<>>
    /\ out1 = <<>>
    /\ MainIdle
    /\ CallsIdle

\* a caller asks get_usd_per_quote(quote, ts)
Query ==
    /\ rs.pc = "idle"
    /\ nq < MaxQueries
    /\ \E quote \in Currencies, t \in Times :
        rs' = GetUsdPerQuoteCall(quote, t)
    /\ trace' = <<>>
    /\ nq' = nq + 1
    /\ UNCHANGED <<PRICE_CACHE, reqs, oddLeft>>
    /\ UNCHANGED fvars
    /\ UNCHANGED mvars
    /\ UNCHANGED callvars

\* get_usd_per_quote returns to its caller
QueryReturn ==
    /\ rs.pc = "ret"
    /\ rs' = IdleFrame
    /\ trace' = <<>>
    /\ UNCHANGED <<PRICE_CACHE, reqs, oddLeft, nq>>
    /\ UNCHANGED fvars
    /\ UNCHANGED mvars
    /\ UNCHANGED callvars

ResolveQ ==
    Resolve /\ UNCHANGED nq /\ UNCHANGED fvars /\ UNCHANGED mvars /\ UNCHANGED callvars

NextResolver == Query \/ ResolveQ \/ QueryReturn

vars == <<PRICE_CACHE, rs, reqs, trace, oddLeft, nq, orders, run, idx, fpc,
          buys_fixed, sells_fixed, buys_src, sells_src, diag, px_log, out1,
          args, mpc, gemini, saved, basis_file, main_buys_fixed, main_sells_fixed,
          buys_sorted, sells_sorted, cb_call,
          alloc, fc, cc, tx, hp, last_nonce_ms, issued>>

SpecResolver == InitResolver /\ [][NextResolver]_vars

\* -------------------------------------------------------------- fix_orders
Runs == 2    \* the pipeline calls fix_orders twice in one run of the program

\* a numeric field, and a field float() raises ValueError on
Num(n) == [num |-> TRUE, v |-> n]
NotANumber == [num |-> FALSE, v |-> 0]
IsFloat(x) == x.num

\* the raw orders a call may be handed:
\* [t, product, side, cost_in_quote, amount_base, price_in_quote, quote];
\* costs and amounts arrive rounded to 10 places (_txn_to_order), "" is None
OrderSet ==
    { <<1, "eth", "buy", Num(3 * Q), Num(2 * Q), Num(One), "USD">>,
      <<2, "BCC", "SELL", Num(Q), Num(0), Num(0), "btc">>,
      <<1, "LTC", "buy", Num(3 * Q), Num(Q), Num(One), "ETH">>,
      <<2, "ETH", "sell", Num(Q), Num(Q), Num(One), "">>,
      <<1, "ETH", "buy", Num(Q), Num(Q), Num(One)>>,
      <<1, "ETH", "HOLD", Num(Q), Num(Q), Num(One), "USD">>,
      <<2, "ETH", "sell", NotANumber, Num(Q), Num(One), "USD">>,
      <<1, "ETH", "buy", Num(Q), NotANumber, Num(One), "BTC">> }

OrderSeqs == UNION {[1..n -> OrderSet] : n \in 0..MaxOrders}

\* side = (side or "").lower()
NormSide(side) == Lower(side)

\* quote = (quote or "USD").upper()
NormQuote(quote) == Upper(IF quote = "" THEN "USD" ELSE quote)

\* product = (product or "").upper(), BCC renamed BCH
NormProduct(product) ==
    LET p == Upper(product) IN IF p = "BCC" THEN "BCH" ELSE p

UsdPerUsdZero == One - One

\* usd_per_quote = 1.0 for a USD quote
UsdPerUsd == One

QuoteSideSame(side) == side

\* quote_side = "sell" if side == "buy" else "buy"
QuoteSide(side) == IF side = "buy" THEN "sell" ELSE "buy"

ListPrepend(list, x) == <<x>> \o list

\* list.append(x)
ListAppend(list, x) == Append(list, x)

KeepList(old) == old

\* buys_fixed = [] and sells_fixed = [] at the top of the call
NewList(old) == <<>>

\* cost_per_coin_usd = (cost_usd / float(amt_base)) if float(amt_base) else 0.0
UnitCost(order, cost_usd) ==
    IF order[5].v # 0 THEN FDiv(cost_usd, order[5].v) ELSE 0

\* cost_usd = float(cost_in_quote) * float(usd_per_quote)
CostUsd(order, usd_per_quote) == FMul(order[4].v, usd_per_quote)

\* base_leg
BaseLeg(order, usd_per_quote) ==
    LET cost_usd == CostUsd(order, usd_per_quote)
    IN  <<order[1], NormProduct(order[2]), NormSide(order[3]), Round10(cost_usd),
          Round10(order[5].v), Round10(UnitCost(order, cost_usd)), "USD">>

\* quote_leg
QuoteLeg(order, usd_per_quote) ==
    <<order[1], NormQuote(order[7]), QuoteSide(NormSide(order[3])),
      Round10(CostUsd(order, usd_per_quote)), Round10(order[4].v),
      Round10(usd_per_quote), "USD">>

\* lines 70-94 for the order at idx: float() raises on a non-numeric cost or
\* amount, otherwise the legs are built and appended and the loop goes on
ConvertAndAppend(order, usd_per_quote) ==
    IF ~IsFloat(order[4]) \/ ~IsFloat(order[5])
    THEN /\ fpc' = "raised"
         /\ UNCHANGED <<idx, buys_fixed, sells_fixed, buys_src, sells_src>>
    ELSE LET side == NormSide(order[3])
             twoLegs == NormQuote(order[7]) # "USD"
             base_leg == BaseLeg(order, usd_per_quote)
             quote_leg == QuoteLeg(order, usd_per_quote)
         IN  /\ fpc' = "loop"
             /\ idx' = idx + 1
             /\ IF side = "buy"
                THEN /\ buys_fixed' = ListAppend(buys_fixed, base_leg)
                     /\ buys_src' = ListAppend(buys_src, idx)
                     /\ sells_fixed' = IF twoLegs THEN ListAppend(sells_fixed, quote_leg)
                                       ELSE sells_fixed
                     /\ sells_src' = IF twoLegs THEN ListAppend(sells_src, idx)
                                     ELSE sells_src
                ELSE /\ sells_fixed' = ListAppend(sells_fixed, base_leg)
                     /\ sells_src' = ListAppend(sells_src, idx)
                     /\ buys_fixed' = IF twoLegs THEN ListAppend(buys_fixed, quote_leg)
                                      ELSE buys_fixed
                     /\ buys_src' = IF twoLegs THEN ListAppend(buys_src, idx)
                                    ELSE buys_src

AtOrder == fpc = "loop" /\ idx <= Len(orders)

\* fix_orders(orders) is called
StartRun ==
    /\ fpc \in {"idle", "done"}
    /\ run < Runs
    /\ run' = run + 1
    /\ idx' = 1
    /\ fpc' = "loop"
    /\ buys_fixed' = NewList(buys_fixed)
    /\ sells_fixed' = NewList(sells_fixed)
    /\ buys_src' = NewList(buys_src)
    /\ sells_src' = NewList(sells_src)
    /\ diag' = <<>>
    /\ px_log' = <<>>
    /\ UNCHANGED <<orders, out1, nq>>
    /\ UNCHANGED rvars
    /\ UNCHANGED mvars
    /\ UNCHANGED callvars

\* the unpacking of the order fails: "WEIRD! Malformed order", continue
SkipMalformed ==
    /\ AtOrder
    /\ Len(orders[idx]) # 7
    /\ diag' = Append(diag, [idx |-> idx, kind |-> "malformed"])
    /\ idx' = idx + 1
    /\ UNCHANGED <<orders, run, fpc, buys_fixed, sells_fixed, buys_src, sells_src,
                   px_log, out1, nq>>
    /\ UNCHANGED rvars
    /\ UNCHANGED mvars
    /\ UNCHANGED callvars

\* side not in ("buy", "sell"): "WEIRD! Unknown order buy/sell type!", continue
SkipUnknownSide ==
    /\ AtOrder
    /\ Len(orders[idx]) = 7
    /\ NormSide(orders[idx][3]) \notin {"buy", "sell"}
    /\ diag' = Append(diag, [idx |-> idx, kind |-> "unknown_side"])
    /\ idx' = idx + 1
    /\ UNCHANGED <<orders, run, fpc, buys_fixed, sells_fixed, buys_src, sells_src,
                   px_log, out1, nq>>
    /\ UNCHANGED rvars
    /\ UNCHANGED mvars
    /\ UNCHANGED callvars

\* the loop body for an order quoted in USD
NormalizeUsd ==
    /\ AtOrder
    /\ Len(orders[idx]) = 7
    /\ NormSide(orders[idx][3]) \in {"buy", "sell"}
    /\ NormQuote(orders[idx][7]) = "USD"
    /\ ConvertAndAppend(orders[idx], UsdPerUsd)
    /\ UNCHANGED <<orders, run, diag, px_log, out1, nq>>
    /\ UNCHANGED rvars
    /\ UNCHANGED mvars
    /\ UNCHANGED callvars

\* the loop body for any other order, up to the call of
\* gemini_reader.get_usd_per_quote(order[6], order[0])
CallResolver ==
    /\ AtOrder
    /\ Len(orders[idx]) = 7
    /\ NormSide(orders[idx][3]) \in {"buy", "sell"}
    /\ NormQuote(orders[idx][7]) # "USD"
    /\ rs' = GetUsdPerQuoteCall(orders[idx][7], orders[idx][1])
    /\ trace' = <<>>
    /\ fpc' = "price"
    /\ UNCHANGED <<PRICE_CACHE, reqs, oddLeft>>
    /\ UNCHANGED <<orders, run, idx, buys_fixed, sells_fixed, buys_src, sells_src,
                   diag, px_log, out1, nq>>
    /\ UNCHANGED mvars
    /\ UNCHANGED callvars

Logged(entry) == Append(px_log, [idx |-> idx, entry |-> entry, ret |-> rs.ret])
Warned == Append(diag, [idx |-> idx, kind |-> "warn"])

\* not usd_per_quote or usd_per_quote <= 0, and quote == "BTC"
NeedsFallback(quote, usd_per_quote) == usd_per_quote <= 0 /\ quote = "BTC"

UnpricedBtcOnly(quote, usd_per_quote) == usd_per_quote <= 0 /\ quote = "BTC"

\* not usd_per_quote or usd_per_quote <= 0 (second test)
Unpriced(quote, usd_per_quote) == usd_per_quote <= 0

\* get_usd_per_quote has returned: lines 60-94
AfterPrice ==
    /\ fpc = "price"
    /\ rs.pc = "ret"
    /\ px_log' = Logged("usd_per_quote")
    /\ LET order == orders[idx]
           quote == NormQuote(order[7])
       IN  IF ~IsFloat(order[4])
           \* cost_usd = float(order[3]) * float(usd_per_quote) raises
           THEN /\ fpc' = "raised"
                /\ rs' = IdleFrame
                /\ trace' = <<>>
                /\ UNCHANGED <<idx, buys_fixed, sells_fixed, buys_src, sells_src, diag>>
           ELSE IF NeedsFallback(quote, rs.ret)
           \* usd_per_quote = gemini_reader.get_btc_price(t)
           THEN /\ rs' = GetBtcPriceCall(order[1])
                /\ trace' = <<>>
                /\ fpc' = "fallback"
                /\ UNCHANGED <<idx, buys_fixed, sells_fixed, buys_src, sells_src, diag>>
           ELSE /\ rs' = IdleFrame
                /\ trace' = <<>>
                /\ diag' = IF Unpriced(quote, rs.ret) THEN Warned ELSE diag
                /\ ConvertAndAppend(order, IF Unpriced(quote, rs.ret) THEN 0 ELSE rs.ret)
    /\ UNCHANGED <<PRICE_CACHE, reqs, oddLeft>>
    /\ UNCHANGED <<orders, run, out1, nq>>
    /\ UNCHANGED mvars
    /\ UNCHANGED callvars

\* the fallback get_btc_price has returned: lines 66-94
AfterFallback ==
    /\ fpc = "fallback"
    /\ rs.pc = "ret"
    /\ px_log' = Logged("btc_price")
    /\ rs' = IdleFrame
    /\ trace' = <<>>
    /\ diag' = IF Unpriced("BTC", rs.ret) THEN Warned ELSE diag
    /\ ConvertAndAppend(orders[idx], IF Unpriced("BTC", rs.ret) THEN 0 ELSE rs.ret)
    /\ UNCHANGED <<PRICE_CACHE, reqs, oddLeft>>
    /\ UNCHANGED <<orders, run, out1, nq>>
    /\ UNCHANGED mvars
    /\ UNCHANGED callvars

\* return buys_fixed, sells_fixed
FixOrdersReturn ==
    /\ fpc = "loop"
    /\ idx > Len(orders)
    /\ fpc' = "done"
    /\ out1' = IF run = 1
               THEN [buys |-> buys_fixed, sells |-> sells_fixed, px |-> px_log]
               ELSE out1
    /\ UNCHANGED <<orders, run, idx, buys_fixed, sells_fixed, buys_src, sells_src,
                   diag, px_log, nq>>
    /\ UNCHANGED rvars
    /\ UNCHANGED mvars
    /\ UNCHANGED callvars

Init ==
    /\ PRICE_CACHE = <<>>
    /\ rs = IdleFrame
    /\ reqs = <<>>
    /\ trace = <<>>
    /\ oddLeft = MaxOdd
    /\ nq = 0
    /\ orders \in OrderSeqs
    /\ run = 0
    /\ idx = 0
    /\ fpc = "idle"
    /\ buys_fixed = <<>>
    /\ sells_fixed = <<>>
    /\ buys_src = <<>>
    /\ sells_src = <<>>
    /\ diag = <<>>
    /\ px_log = <<>>
    /\ out1 = <<>>
    /\ MainIdle
    /\ CallsIdle

Next ==
    \/ StartRun
    \/ SkipMalformed
    \/ SkipUnknownSide
    \/ NormalizeUsd
    \/ CallResolver
    \/ ResolveQ
    \/ AfterPrice
    \/ AfterFallback
    \/ FixOrdersReturn

Spec == Init /\ [][Next]_vars

\* ---------------------------------------------------------------- __main__
DayLen == 1     \* time units per day
YearDays == 2   \* days per year
StartYear == 1  \* the year -startyear names when it is given

YearStart(y) == y * YearDays * DayLen

\* dateutil.parser.parse('%d/1/2 00:00:00Z' % args.startyear)
StartYearBuys(y) == YearStart(y) + DayLen

RECURSIVE InsertByTime(_, _)
\* x put behind every element of the sorted list that is not later than x
InsertByTime(list, x) ==
    IF list = <<>> THEN <<x>>
    ELSE IF list[Len(list)][1] <= x[1] THEN Append(list, x)
    ELSE Append(InsertByTime(SubSeq(list, 1, Len(list) - 1), x), list[Len(list)])

\* the list left in the order it came in
SortedByTimeNot(list) == list

RECURSIVE SortedByTime(_)
\* sorted(list, key=lambda x: x[0]), a stable sort
SortedByTime(list) ==
    IF list = <<>> THEN <<>>
    ELSE InsertByTime(SortedByTime(SubSeq(list, 1, Len(list) - 1)), list[Len(list)])

\* sequences over S of length at most n without repeated elements
DistinctSeqs(S, n) ==
    {q \in UNION {[1..m -> S] : m \in 0..n} :
        \A i \in 1..Len(q), j \in 1..Len(q) : i # j => q[i] # q[j]}

\* what get_buys_sells can return: well-formed orders, the side in lower case
\* and the quote in upper case (_txn_to_order)
GeminiBuyOrders ==
    { <<2, "ETH", "buy", Num(3 * Q), Num(2 * Q), Num(One), "USD">>,
      <<1, "ETH", "buy", Num(Q), Num(Q), Num(One), "BTC">> }
GeminiSellOrders ==
    { <<1, "ETH", "sell", Num(Q), Num(Q), Num(One), "USD">>,
      <<2, "LTC", "sell", Num(Q), Num(0), Num(0), "BTC">> }

\* a leg as a previous run saved it, or as the cost-basis file gives it
Leg(t, product, side) == <<t, product, side, 2 * Q, Q, 2 * One, "USD">>

\* the saved lists are sorted by time (they were saved sorted)
SavedStates ==
    { [found |-> FALSE, buys |-> <<>>, sells |-> <<>>],
      [found |-> TRUE,
       buys |-> << Leg(YearStart(StartYear) - DayLen, "ETH", "buy"),
                   Leg(YearStart(StartYear), "BTC", "buy"),
                   Leg(StartYearBuys(StartYear), "ETH", "buy") >>,
       sells |-> << Leg(StartYearBuys(StartYear) + DayLen, "ETH", "sell") >>],
      [found |-> TRUE,
       buys |-> << Leg(StartYearBuys(StartYear), "BTC", "buy") >>,
       sells |-> <<>>] }

\* the records of a cost-basis file, in file order
BasisFiles ==
    { << Leg(YearStart(StartYear) - DayLen, "LTC", "buy") >>,
      << Leg(StartYearBuys(StartYear) + DayLen, "LTC", "buy"),
         Leg(YearStart(StartYear), "BCH", "buy") >> }

\* cost_basis.parse_cost_basis_file(args.costbasis): the records of the file
\* as buy legs
ParseCostBasisFile == basis_file

\* cost_basis.get_cost_basis(copy.deepcopy(sells), copy.deepcopy(buys), ...)
GetCostBasisCall(sells, buys) == [made |-> TRUE, sells |-> sells, buys |-> buys]

InitMain ==
    /\ PRICE_CACHE = <<>>
    /\ rs = IdleFrame
    /\ reqs = <<>>
    /\ trace = <<>>
    /\ oddLeft = MaxOdd
    /\ nq = 0
    /\ orders = <<>>
    /\ run = 0
    /\ idx = 0
    /\ fpc = "idle"
    /\ buys_fixed = <<>>
    /\ sells_fixed = <<>>
    /\ buys_src = <<>>
    /\ sells_src = <<>>
    /\ diag = <<>>
    /\ px_log = <<>>
    /\ out1 = <<>>
    /\ args \in [download : BOOLEAN, startyear : {0, StartYear},
                 costbasis : {"", "basis.csv"}]
    /\ mpc = "start"
    /\ gemini \in [buys : DistinctSeqs(GeminiBuyOrders, MaxOrders),
                   sells : DistinctSeqs(GeminiSellOrders, MaxOrders)]
    /\ args.download = FALSE => gemini = [buys |-> <<>>, sells |-> <<>>]
    /\ saved \in SavedStates
    /\ args.download => ~saved.found
    /\ basis_file \in BasisFiles \cup {<<>>}
    /\ basis_file # <<>> <=> args.costbasis # ""
    /\ main_buys_fixed = <<>>
    /\ main_sells_fixed = <<>>
    /\ buys_sorted = <<>>
    /\ sells_sorted = <<>>
    /\ cb_call = [made |-> FALSE, sells |-> <<>>, buys |-> <<>>]
    /\ CallsIdle

\* --download: get_buys_sells, up to the first turn of
\* "for orders in [gemini_buys, gemini_sells]"
MainGetBuysSells ==
    /\ mpc = "start"
    /\ args.download
    /\ orders' = gemini.buys
    /\ mpc' = "fix_buys"
    /\ UNCHANGED <<run, idx, fpc, buys_fixed, sells_fixed, buys_src, sells_src,
                   diag, px_log, out1, nq>>
    /\ UNCHANGED <<args, gemini, saved, basis_file, main_buys_fixed, main_sells_fixed,
                   buys_sorted, sells_sorted, cb_call>>
    /\ UNCHANGED rvars
    /\ UNCHANGED callvars

\* b, s = fix_orders(orders): the call
MainCallFix ==
    /\ mpc \in {"fix_buys", "fix_sells"}
    /\ fpc = "idle"
    /\ StartRun

\* buys_fixed += b; sells_fixed += s after fix_orders(gemini_buys), and the
\* next turn of the loop
MainCollectBuys ==
    /\ mpc = "fix_buys"
    /\ fpc = "done"
    /\ main_buys_fixed' = main_buys_fixed \o buys_fixed
    /\ main_sells_fixed' = main_sells_fixed \o sells_fixed
    /\ orders' = gemini.sells
    /\ fpc' = "idle"
    /\ mpc' = "fix_sells"
    /\ UNCHANGED <<run, idx, buys_fixed, sells_fixed, buys_src, sells_src,
                   diag, px_log, out1, nq>>
    /\ UNCHANGED <<args, gemini, saved, basis_file, buys_sorted, sells_sorted, cb_call>>
    /\ UNCHANGED rvars
    /\ UNCHANGED callvars

\* buys_fixed += b; sells_fixed += s after fix_orders(gemini_sells), then the
\* rest of the download branch: the sorts, the saves, get_cost_basis
MainDownloadFinish ==
    /\ mpc = "fix_sells"
    /\ fpc = "done"
    /\ main_buys_fixed' = main_buys_fixed \o buys_fixed
    /\ main_sells_fixed' = main_sells_fixed \o sells_fixed
    /\ buys_sorted' = SortedByTime(main_buys_fixed')
    /\ sells_sorted' = SortedByTime(main_sells_fixed')
    /\ saved' = [found |-> TRUE, buys |-> buys_sorted', sells |-> sells_sorted']
    /\ cb_call' = GetCostBasisCall(sells_sorted', buys_sorted')
    /\ fpc' = "idle"
    /\ mpc' = "done"
    /\ UNCHANGED <<orders, run, idx, buys_fixed, sells_fixed, buys_src, sells_src,
                   diag, px_log, out1, nq>>
    /\ UNCHANGED <<args, gemini, basis_file>>
    /\ UNCHANGED rvars
    /\ UNCHANGED callvars

\* the load branch: the saved lists (none when the file is missing), the
\* -startyear filter, the -costbasis merge, get_cost_basis
MainLoad ==
    /\ mpc = "start"
    /\ ~args.download
    /\ LET loaded_buys == IF saved.found THEN saved.buys ELSE <<>>
           loaded_sells == IF saved.found THEN saved.sells ELSE <<>>
           Kept(b) == b[1] >= StartYearBuys(args.startyear)
           from_year == IF args.startyear > 0 THEN SelectSeq(loaded_buys, Kept)
                        ELSE loaded_buys
           merged == IF args.costbasis # ""
                     THEN SortedByTime(from_year \o ParseCostBasisFile)
                     ELSE from_year
       IN  /\ buys_sorted' = merged
           /\ sells_sorted' = loaded_sells
           /\ cb_call' = GetCostBasisCall(loaded_sells, merged)
    /\ mpc' = "done"
    /\ UNCHANGED <<args, gemini, saved, basis_file, main_buys_fixed, main_sells_fixed>>
    /\ UNCHANGED fvars
    /\ UNCHANGED <<nq>>
    /\ UNCHANGED rvars
    /\ UNCHANGED callvars

\* the orders get_buys_sells returns have 7 fields and a side of buy or sell
\* (_txn_to_order), so the two skips of fix_orders do not occur in the pipeline
NextMain ==
    \/ MainGetBuysSells
    \/ MainCallFix
    \/ NormalizeUsd
    \/ CallResolver
    \/ ResolveQ
    \/ AfterPrice
    \/ AfterFallback
    \/ FixOrdersReturn
    \/ MainCollectBuys
    \/ MainDownloadFinish
    \/ MainLoad

SpecMain == InitMain /\ [][NextMain]_vars

\* ---------------------------------------------- cost_basis.get_cost_basis
\* the lot matching engine: allocate(sells, buys, strategy, tax_year)
MaxLots == 3    \* buys handed to one get_cost_basis call
MaxSells == 2   \* sells handed to one get_cost_basis call

BasisTypeEarliest == "earliest"

\* basis_type='highest', the strategy both get_cost_basis calls pass
BASIS_TYPE == "highest"

\* the pipeline at rest, while one function is run on its own
PipelineIdle ==
    /\ PRICE_CACHE = <<>>
    /\ rs = IdleFrame
    /\ reqs = <<>>
    /\ trace = <<>>
    /\ oddLeft = MaxOdd
    /\ nq = 0
    /\ orders = <<>>
    /\ run = 0
    /\ idx = 0
    /\ fpc = "idle"
    /\ buys_fixed = <<>>
    /\ sells_fixed = <<>>
    /\ buys_src = <<>>
    /\ sells_src = <<>>
    /\ diag = <<>>
    /\ px_log = <<>>
    /\ out1 = <<>>
    /\ MainIdle

pvars == <<rvars, nq, fvars, mvars>>

\* a USD leg [time, product, side, cost_usd, amount, unit_cost, 'USD']
UsdLeg(t, product, side, amount, unit) ==
    <<t, product, side, FMul(amount, unit), amount, unit, "USD">>

\* the buys and the sells a call may be handed
AllocBuys ==
    { UsdLeg(1, "BTC", "buy", 2 * Q, 2 * One),
      UsdLeg(2, "BTC", "buy", 2 * Q, 4 * One),
      UsdLeg(1, "BTC", "buy", Q, 4 * One),
      UsdLeg(1, "ETH", "buy", 2 * Q, 6 * One),
      UsdLeg(4, "BTC", "buy", 2 * Q, 6 * One) }
AllocSells ==
    { UsdLeg(3, "BTC", "sell", 3 * Q, 3 * One),
      UsdLeg(4, "BTC", "sell", Q, 2 * One),
      UsdLeg(2, "ETH", "sell", 3 * Q, 2 * One) }

\* Lot {asset, acquired_time, remaining_amount, unit_cost_usd}, one per buy
LotOf(b) == [asset |-> b[2], acquired_time |-> b[1], remaining_amount |-> b[5],
             unit_cost_usd |-> b[6]]

\* calendar year of a time
YearOf(t) == t \div (YearDays * DayLen)

\* the lots a sell may consume: open, of its asset, acquired by the sale time
OpenLots(lots, sell) ==
    {i \in 1..Len(lots) :
        /\ lots[i].remaining_amount > 0
        /\ lots[i].asset = sell[2]
        /\ lots[i].acquired_time <= sell[1]}

\* the strategy's comparison: lot i is preferred to lot j
Preferred(lots, strategy, i, j) ==
    LET a == lots[i]
        b == lots[j]
    IN  IF strategy = "highest"
        THEN \/ a.unit_cost_usd > b.unit_cost_usd
             \/ a.unit_cost_usd = b.unit_cost_usd /\ a.acquired_time < b.acquired_time
             \/ a.unit_cost_usd = b.unit_cost_usd /\ a.acquired_time = b.acquired_time
                /\ i < j
        ELSE \/ a.acquired_time < b.acquired_time
             \/ a.acquired_time = b.acquired_time /\ i < j

\* the best-matching open lot
BestLot(lots, strategy, open) ==
    CHOOSE i \in open : \A j \in open \ {i} : Preferred(lots, strategy, i, j)

Min(a, b) == IF a <= b THEN a ELSE b

\* Disposal: one sale-against-lot match; lot = 0 and unverified for a sell no
\* lot covers
Disposal(sell, k, amount, lots, i) ==
    LET proceeds == RoundDiv(sell[4] * amount, sell[5])
        cost == IF i = 0 THEN 0 ELSE FMul(amount, lots[i].unit_cost_usd)
    IN  [asset |-> sell[2], sale_time |-> sell[1], amount |-> amount,
         proceeds_usd |-> proceeds, cost_basis_usd |-> cost,
         gain_usd |-> proceeds - cost,
         acquired_time |-> IF i = 0 THEN 0 ELSE lots[i].acquired_time,
         sell |-> k, lot |-> i, unverified |-> i = 0]

\* lists over S, at most n long, without repeats and sorted by time
SortedLists(S, n) == {q \in DistinctSeqs(S, n) : q = SortedByTime(q)}

\* get_cost_basis(sells, buys, basis_type, tax_year) at its first sell
AllocCall(sells, buys, basis_type, tax_year) ==
    [pc |-> IF sells = <<>> THEN "report" ELSE "sell",
     sells |-> sells,
     lots |-> [i \in 1..Len(buys) |-> LotOf(buys[i])],
     strategy |-> basis_type, tax_year |-> tax_year,
     k |-> 1,
     remaining |-> IF sells = <<>> THEN 0 ELSE sells[1][5],
     disposals |-> <<>>, ret |-> <<>>]

InitAlloc ==
    /\ PipelineIdle
    /\ FetchIdle /\ ClosestIdle /\ TxnIdle /\ PostIdle /\ NonceIdle
    /\ \E sells \in SortedLists(AllocSells, MaxSells),
          buys \in SortedLists(AllocBuys, MaxLots),
          tax_year \in {0, 1} :
        alloc = AllocCall(sells, buys, BASIS_TYPE, tax_year)

\* consume min(sell remaining, lot remaining) of the best-matching open lot
\* and emit one Disposal
AllocConsume ==
    /\ alloc.pc = "sell"
    /\ alloc.remaining > 0
    /\ LET sell == alloc.sells[alloc.k]
           open == OpenLots(alloc.lots, sell)
       IN  /\ open # {}
           /\ LET i == BestLot(alloc.lots, alloc.strategy, open)
                  amount == Min(alloc.remaining, alloc.lots[i].remaining_amount)
              IN  alloc' = [alloc EXCEPT
                      !.lots[i].remaining_amount = @ - amount,
                      !.remaining = @ - amount,
                      !.disposals = Append(@, Disposal(sell, alloc.k, amount,
                                                       alloc.lots, i))]
    /\ UNCHANGED <<fc, cc, tx, hp, last_nonce_ms, issued>>
    /\ UNCHANGED pvars

\* no open lot is left for the sell: an unverified Disposal with zero cost
\* basis for what remains
AllocUnmatched ==
    /\ alloc.pc = "sell"
    /\ alloc.remaining > 0
    /\ LET sell == alloc.sells[alloc.k]
       IN  /\ OpenLots(alloc.lots, sell) = {}
           /\ alloc' = [alloc EXCEPT
                 !.remaining = 0,
                 !.disposals = Append(@, Disposal(sell, alloc.k, alloc.remaining,
                                                  alloc.lots, 0))]
    /\ UNCHANGED <<fc, cc, tx, hp, last_nonce_ms, issued>>
    /\ UNCHANGED pvars

\* the sell is covered: on to the next one in chronological order
AllocNextSell ==
    /\ alloc.pc = "sell"
    /\ alloc.remaining = 0
    /\ alloc' = IF alloc.k < Len(alloc.sells)
                THEN [alloc EXCEPT !.k = @ + 1,
                                   !.remaining = alloc.sells[alloc.k + 1][5]]
                ELSE [alloc EXCEPT !.pc = "report"]
    /\ UNCHANGED <<fc, cc, tx, hp, last_nonce_ms, issued>>
    /\ UNCHANGED pvars

\* the Disposals of the requested tax year are returned
AllocReport ==
    /\ alloc.pc = "report"
    /\ LET InYear(d) == YearOf(d.sale_time) = alloc.tax_year
       IN  alloc' = [alloc EXCEPT !.pc = "done",
                                  !.ret = SelectSeq(alloc.disposals, InYear)]
    /\ UNCHANGED <<fc, cc, tx, hp, last_nonce_ms, issued>>
    /\ UNCHANGED pvars

NextAlloc == AllocConsume \/ AllocUnmatched \/ AllocNextSell \/ AllocReport

SpecAlloc == InitAlloc /\ [][NextAlloc]_vars

\* ---------------------------------------------- _fetch_candles on its own
\* the key of the call: _fetch_candles("btcusd", "1m")
FetchKey == <<"btc", "usd", LADDER[1]>>

\* a call with the key cached or not, and the answers the upstream has ready
InitFetch ==
    /\ PRICE_CACHE \in {<<>>, CachePut(<<>>, FetchKey, FlatCandles)}
    /\ rs = IdleFrame
    /\ reqs = <<>>
    /\ trace = <<>>
    /\ oddLeft = MaxOdd
    /\ nq = 0
    /\ orders = <<>>
    /\ run = 0
    /\ idx = 0
    /\ fpc = "idle"
    /\ buys_fixed = <<>>
    /\ sells_fixed = <<>>
    /\ buys_src = <<>>
    /\ sells_src = <<>>
    /\ diag = <<>>
    /\ px_log = <<>>
    /\ out1 = <<>>
    /\ MainIdle
    /\ AllocIdle /\ ClosestIdle /\ TxnIdle /\ PostIdle /\ NonceIdle
    /\ \E s \in AttemptScripts : fc = [pc |-> "call", script |-> s]

\* if key in _PRICE_CACHE: return _PRICE_CACHE[key]
FetchHit ==
    /\ fc.pc = "call"
    /\ CacheHas(FetchKey)
    /\ fc' = [pc |-> "done", script |-> fc.script, nreq |-> 0,
              ret |-> PRICE_CACHE[FetchKey]]
    /\ UNCHANGED <<rvars, nq, fvars, mvars>>
    /\ UNCHANGED <<alloc, cc, tx, hp, last_nonce_ms, issued>>

\* the "for attempt in range(3)" loop, to the return
FetchMiss ==
    /\ fc.pc = "call"
    /\ ~CacheHas(FetchKey)
    /\ LET r == FetchAttempts(fc.script, 0)
       IN  /\ fc' = [pc |-> "done", script |-> fc.script, nreq |-> r.nreq,
                     ret |-> r.data]
           /\ PRICE_CACHE' = IF r.store THEN CachePut(PRICE_CACHE, FetchKey, r.data)
                             ELSE PRICE_CACHE
    /\ UNCHANGED <<rs, reqs, trace, oddLeft, nq>>
    /\ UNCHANGED <<fvars, mvars>>
    /\ UNCHANGED <<alloc, cc, tx, hp, last_nonce_ms, issued>>

NextFetch == FetchHit \/ FetchMiss

SpecFetch == InitFetch /\ [][NextFetch]_vars

\* ---------------------------------------------- _closest_close on its own
MaxCandles == 2   \* candles of the list handed to one _closest_close call

\* candles <<timestamp_ms, close>> and query times
CandleSet == {<<t, c>> : t \in {1000, 2000, 3000}, c \in {One, 2 * One}}
CandleLists == UNION {[1..n -> CandleSet] : n \in 0..MaxCandles}
QueryTimes == {1000, 2000, 2500}

InitClosest ==
    /\ PipelineIdle
    /\ AllocIdle /\ FetchIdle /\ TxnIdle /\ PostIdle /\ NonceIdle
    /\ \E candles \in CandleLists, ts_ms \in QueryTimes :
        cc = [pc |-> "call", candles |-> candles, ts_ms |-> ts_ms]

\* _closest_close(candles, ts_ms)
ClosestCloseCall ==
    /\ cc.pc = "call"
    /\ cc' = [pc |-> "done", candles |-> cc.candles, ts_ms |-> cc.ts_ms,
              ret |-> ClosestClose(cc.candles, cc.ts_ms)]
    /\ UNCHANGED <<alloc, fc, tx, hp, last_nonce_ms, issued>>
    /\ UNCHANGED pvars

NextClosest == ClosestCloseCall

SpecClosest == InitClosest /\ [][NextClosest]_vars

\* -------------------------------------------- get_buys_sells on its own
MaxTxns == 2   \* transactions the reader hands to one get_buys_sells call

\* pair = (txn.get('pair') or '').upper(), split at '-' or before its last
\* three letters, on the pairs that occur
PairSplit(pair) ==
    CASE pair = "ETH-USD" -> <<"ETH", "USD">>
      [] pair = "eth-usd" -> <<"ETH", "USD">>
      [] pair = "ethbtc" -> <<"ETH", "BTC">>
      [] pair = "ETHBTC" -> <<"ETH", "BTC">>
      [] OTHER -> <<"", "">>

\* the transactions a reader may produce: amounts, prices and fees are
\* floats, a price or fee of 0 and a fee currency of "" stand for a missing one
TxnSet ==
    [pair : {"ETH-USD", "ethbtc"},
     type : {"buy", "Sell", "deposit"},
     amount : {3 * Q, -(2 * Q + 1)},
     price : {One + 1, 0},
     fee : {Q + 1},
     fee_currency : {"", "usd", "ETH"}]

TxnLists == UNION {[1..n -> TxnSet] : n \in 0..MaxTxns}

FeeInQuoteAlways(fee, fee_currency, quote) == fee

\* fee_ccy = (txn.get('fee_currency') or quote).upper();
\* fee_in_quote = fee if fee_ccy == quote else 0.0
FeeInQuote(fee, fee_currency, quote) ==
    LET fee_ccy == Upper(IF fee_currency = "" THEN quote ELSE fee_currency)
    IN  IF fee_ccy = quote THEN fee ELSE 0

\* the value for None
NoOrder == <<>>

\* _txn_to_order(txn), t being txn['timestamp']
TxnToOrder(txn, t) ==
    LET base == PairSplit(txn.pair)[1]
        quote == PairSplit(txn.pair)[2]
        side == Lower(txn.type)
        gross == FMul(Abs(txn.amount), txn.price)
        fee_in_quote == FeeInQuote(txn.fee, txn.fee_currency, quote)
        cost == IF side = "buy" THEN gross + fee_in_quote ELSE gross - fee_in_quote
    IN  IF side \notin {"buy", "sell"} THEN NoOrder
        ELSE <<t, base, side, Round10(cost), Round10(Abs(txn.amount)),
               Round10(txn.price), quote>>

\* the reader's transactions are in hand; txn i carries timestamp i
InitTxn ==
    /\ PipelineIdle
    /\ AllocIdle /\ FetchIdle /\ ClosestIdle /\ PostIdle /\ NonceIdle
    /\ \E txns \in TxnLists :
        tx = [pc |-> "loop", txns |-> txns, i |-> 1, buys |-> <<>>, sells |-> <<>>]

\* one turn of "for txn in txns"
GetBuysSellsStep ==
    /\ tx.pc = "loop"
    /\ tx.i <= Len(tx.txns)
    /\ LET order == TxnToOrder(tx.txns[tx.i], tx.i)
       IN  tx' = [tx EXCEPT
                 !.i = @ + 1,
                 !.buys = IF order # NoOrder /\ order[3] = "buy"
                          THEN Append(@, order) ELSE @,
                 !.sells = IF order # NoOrder /\ order[3] = "sell"
                           THEN Append(@, order) ELSE @]
    /\ UNCHANGED <<alloc, fc, cc, hp, last_nonce_ms, issued>>
    /\ UNCHANGED pvars

\* return buys, sells
GetBuysSellsReturn ==
    /\ tx.pc = "loop"
    /\ tx.i > Len(tx.txns)
    /\ tx' = [tx EXCEPT !.pc = "done"]
    /\ UNCHANGED <<alloc, fc, cc, hp, last_nonce_ms, issued>>
    /\ UNCHANGED pvars

NextTxn == GetBuysSellsStep \/ GetBuysSellsReturn

SpecTxn == InitTxn /\ [][NextTxn]_vars

\* ------------------------------------------- the private API: _http_post
MAX_RETRIES == 3  \* MAX_RETRIES
MaxCalls == 3     \* _http_post calls of one run
MaxClock == 2     \* clock readings range over 9..(9 + MaxClock) milliseconds

\* int(time.time() * 1000): any reading, repeated or earlier ones included
ClockReadings == 9..(9 + MaxClock)

RECURSIVE Str(_)
\* str(n) for n >= 0, as its decimal digits
Str(n) == IF n < 10 THEN <<n>> ELSE Append(Str(n \div 10), n % 10)

RECURSIVE StrInt(_)
\* the number a string of decimal digits denotes
StrInt(d) ==
    IF d = <<>> THEN 0 ELSE 10 * StrInt(SubSeq(d, 1, Len(d) - 1)) + d[Len(d)]

NextNonceRepeat(now, last) == IF now < last THEN last + 1 ELSE now

\* the new value of _last_nonce_ms: now, or _last_nonce_ms + 1 when the clock
\* did not advance
NextNonce(now, last) == IF now <= last THEN last + 1 ELSE now

\* what one urlopen may end in: a response with a body, an HTTPError with its
\* code, any other exception
Responses ==
    { [kind |-> "ok", code |-> 200, body |-> "[]"],
      [kind |-> "ok", code |-> 200, body |-> "{\"result\": \"ok\"}"],
      [kind |-> "ok", code |-> 200, body |-> "<html>"],
      [kind |-> "http", code |-> 429, body |-> ""],
      [kind |-> "http", code |-> 400, body |-> ""],
      [kind |-> "http", code |-> 500, body |-> ""],
      [kind |-> "error", code |-> 0, body |-> ""] }

\* json.loads(data.decode('utf-8')): the value, or a ValueError
JsonLoads(body) ==
    CASE body = "[]" -> [ok |-> TRUE, value |-> <<>>]
      [] body = "{\"result\": \"ok\"}" -> [ok |-> TRUE, value |-> [result |-> "ok"]]
      [] OTHER -> [ok |-> FALSE, value |-> <<>>]

PostOutcomeRetryAll(r, attempt) ==
    IF r.kind = "ok" /\ JsonLoads(r.body).ok THEN "return"
    ELSE IF attempt = MAX_RETRIES THEN "raise"
    ELSE "sleep"

\* one turn of "for attempt in range(1, MAX_RETRIES + 1)" on response r
PostOutcome(r, attempt) ==
    IF r.kind = "ok" /\ JsonLoads(r.body).ok THEN "return"
    ELSE IF r.kind = "http"
    \* if e.code != 429 or attempt == MAX_RETRIES: raise RuntimeError
    THEN IF r.code # 429 \/ attempt = MAX_RETRIES THEN "raise" ELSE "sleep"
    \* except Exception: if attempt == MAX_RETRIES: raise
    ELSE IF attempt = MAX_RETRIES THEN "raise" ELSE "sleep"

InitApi ==
    /\ PipelineIdle
    /\ AllocIdle /\ FetchIdle /\ ClosestIdle /\ TxnIdle
    /\ hp = [pc |-> "idle"]
    /\ last_nonce_ms = 0
    /\ issued = <<>>

\* _http_post is called: _gemini_headers takes a nonce from _next_nonce_ms,
\* then the first attempt is due
HttpPostCall ==
    /\ hp.pc \in {"idle", "returned", "raised", "none"}
    /\ Len(issued) < MaxCalls
    /\ \E now \in ClockReadings, path \in {"/v1/mytrades", "/v1/transfers"} :
        LET n == NextNonce(now, last_nonce_ms)
        IN  /\ last_nonce_ms' = n
            /\ issued' = Append(issued, [nonce |-> Str(n), now |-> now,
                                         last |-> last_nonce_ms])
            /\ hp' = [pc |-> "try", path |-> path, nonce |-> Str(n), attempt |-> 1,
                      log |-> <<>>, ret |-> <<>>]
    /\ UNCHANGED <<alloc, fc, cc, tx>>
    /\ UNCHANGED pvars

\* one attempt: the request, and the return, the raise, or the sleep before
\* the next attempt; after the last attempt's sleep the loop ends and the
\* function returns None
HttpPostAttempt ==
    /\ hp.pc = "try"
    /\ \E r \in Responses :
        LET o == PostOutcome(r, hp.attempt)
            log == Append(hp.log, r)
        IN  hp' = CASE o = "return" ->
                         [hp EXCEPT !.pc = "returned", !.log = log,
                                    !.ret = JsonLoads(r.body).value]
                    [] o = "raise" -> [hp EXCEPT !.pc = "raised", !.log = log]
                    [] OTHER ->
                         IF hp.attempt < MAX_RETRIES
                         THEN [hp EXCEPT !.attempt = @ + 1, !.log = log]
                         ELSE [hp EXCEPT !.pc = "none", !.log = log]
    /\ UNCHANGED <<last_nonce_ms, issued>>
    /\ UNCHANGED <<alloc, fc, cc, tx>>
    /\ UNCHANGED pvars

NextApi == HttpPostCall \/ HttpPostAttempt

SpecApi == InitApi /\ [][NextApi]_vars

\* ------------------------------------------------- C1, C2, C3, C7, C8, C9
\* shape and types fix_orders needs: 7 fields, side buy or sell, numeric cost
\* and amount
WellFormed(o) ==
    /\ Len(o) = 7
    /\ NormSide(o[3]) \in {"buy", "sell"}
    /\ IsFloat(o[4])
    /\ IsFloat(o[5])

IsUsdOrder(o) == NormQuote(o[7]) = "USD"

\* the current call's loop has gone past order i
Processed(i) == i \in 1..Len(orders) /\ fpc \in {"loop", "price", "fallback", "done", "raised"}
                /\ i < idx

BuysOf(i) == {j \in 1..Len(buys_fixed) : buys_src[j] = i}
SellsOf(i) == {j \in 1..Len(sells_fixed) : sells_src[j] = i}

TwoLegs(i) ==
    LET o == orders[i]
        side == NormSide(o[3])
    IN  /\ Cardinality(BuysOf(i)) = 1
        /\ Cardinality(SellsOf(i)) = 1
        /\ LET b == buys_fixed[CHOOSE j \in BuysOf(i) : TRUE]
               s == sells_fixed[CHOOSE j \in SellsOf(i) : TRUE]
               primary == IF side = "buy" THEN b ELSE s
               balancing == IF side = "buy" THEN s ELSE b
           IN  /\ b[3] = "buy"
               /\ s[3] = "sell"
               /\ primary[2] = NormProduct(o[2])
               /\ primary[3] = side
               /\ balancing[2] = NormQuote(o[7])
               /\ balancing[3] # side
               /\ balancing[5] = o[4].v
               /\ balancing[4] = primary[4]
               /\ primary[7] = "USD" /\ balancing[7] = "USD"

\* C1: a well-formed order not quoted in USD has exactly two legs, the primary
\* leg (the traded asset, the order's side) and the balancing leg (the quote
\* currency, the opposite side, amount cost_in_quote, the primary leg's
\* cost_usd), the buy-side one in buys_fixed and the sell-side one in sells_fixed
C1_TwoLegs ==
    \A i \in 1..Len(orders) :
        (Processed(i) /\ WellFormed(orders[i]) /\ ~IsUsdOrder(orders[i])) => TwoLegs(i)

\* a priced sell quoted in BTC, both legs out
C1_Witness ==
    \E i \in 1..Len(orders) :
        /\ Processed(i) /\ WellFormed(orders[i]) /\ ~IsUsdOrder(orders[i])
        /\ NormSide(orders[i][3]) = "sell"
        /\ \E j \in BuysOf(i) : buys_fixed[j][4] > 0 /\ buys_fixed[j][2] = "BTC"
        /\ \E j \in SellsOf(i) : sells_fixed[j][2] = "BCH"

OneLeg(i) ==
    LET o == orders[i]
        side == NormSide(o[3])
        mine == IF side = "buy" THEN BuysOf(i) ELSE SellsOf(i)
        other == IF side = "buy" THEN SellsOf(i) ELSE BuysOf(i)
        list == IF side = "buy" THEN buys_fixed ELSE sells_fixed
    IN  /\ Cardinality(mine) = 1
        /\ other = {}
        /\ list[CHOOSE j \in mine : TRUE][4] = o[4].v
        /\ \A n \in 1..Len(px_log) : px_log[n].idx # i

\* C2: a well-formed order quoted in USD has exactly one leg, whose cost_usd is
\* the order's cost_in_quote, and no resolver call is made for it
C2_UsdOneLeg ==
    \A i \in 1..Len(orders) :
        (Processed(i) /\ WellFormed(orders[i]) /\ IsUsdOrder(orders[i])) => OneLeg(i)

\* a USD buy of non-zero cost was normalized
C2_Witness ==
    \E i \in 1..Len(orders) :
        /\ Processed(i) /\ WellFormed(orders[i]) /\ IsUsdOrder(orders[i])
        /\ orders[i][4].v > 0
        /\ BuysOf(i) # {}

\* C3 as claimed: fix_orders ends normally on every input, and an order that
\* fails shape or type validation (field count, side, non-numeric cost or
\* amount) is skipped with a diagnostic and contributes no leg
C3_MalformedSkipped ==
    /\ fpc # "raised"
    /\ \A i \in 1..Len(orders) :
          (Processed(i) /\ ~WellFormed(orders[i]))
          => /\ \E n \in 1..Len(diag) : diag[n].idx = i
             /\ BuysOf(i) = {} /\ SellsOf(i) = {}

SecondRunDone == run = Runs /\ fpc = "done"

SameResult == buys_fixed = out1.buys /\ sells_fixed = out1.sells

\* C7 as claimed: a second call on the same orders returns the same lists,
\* whatever the upstream answered during the two calls
C7_Idempotent == SecondRunDone => SameResult

\* C7 as amended: a second call on the same orders returns the same lists
\* whenever the resolver returned the same values to both calls
C7_SamePricesSameLegs == (SecondRunDone /\ px_log = out1.px) => SameResult

\* both calls ended, priced an order alike and returned legs
C7_Witness ==
    /\ SecondRunDone
    /\ px_log = out1.px
    /\ Len(px_log) > 0
    /\ Len(buys_fixed) > 0
    /\ Len(sells_fixed) > 0

\* the resolver priced order i non-positive, and so did the BTC fallback when
\* the quote is BTC
UnpricedOrder(i) ==
    /\ \E n \in 1..Len(px_log) :
          px_log[n].idx = i /\ px_log[n].entry = "usd_per_quote" /\ px_log[n].ret <= 0
    /\ NormQuote(orders[i][7]) = "BTC"
          => \E n \in 1..Len(px_log) :
                px_log[n].idx = i /\ px_log[n].entry = "btc_price" /\ px_log[n].ret <= 0

ZeroLegs(i) ==
    /\ \E n \in 1..Len(diag) : diag[n] = [idx |-> i, kind |-> "warn"]
    /\ Cardinality(BuysOf(i)) = 1
    /\ Cardinality(SellsOf(i)) = 1
    /\ \A j \in BuysOf(i) : buys_fixed[j][4] = 0 /\ buys_fixed[j][6] = 0
    /\ \A j \in SellsOf(i) : sells_fixed[j][4] = 0 /\ sells_fixed[j][6] = 0

\* C8: a well-formed order whose quote currency cannot be priced is warned
\* about and still has both its legs, each with cost_usd 0 and unit price 0,
\* and the loop goes on to the next order
C8_UnpricedZeroLegs ==
    \A i \in 1..Len(orders) :
        (Processed(i) /\ WellFormed(orders[i]) /\ ~IsUsdOrder(orders[i])
           /\ UnpricedOrder(i)) => ZeroLegs(i)

\* an unpriced first order, and the second order normalized after it
C8_Witness ==
    /\ Len(orders) = 2
    /\ Processed(1) /\ WellFormed(orders[1]) /\ ~IsUsdOrder(orders[1])
    /\ UnpricedOrder(1)
    /\ orders[1][4].v > 0
    /\ Processed(2)
    /\ BuysOf(2) \cup SellsOf(2) # {}

IsSorted(src) == \A j \in 1..Len(src), k \in 1..Len(src) : j < k => src[j] <= src[k]

\* C9: every element of buys_fixed is a buy and every element of sells_fixed
\* a sell, every leg is in USD, and each list keeps the order of the raw orders
C9_SidesAndOrder ==
    /\ \A j \in 1..Len(buys_fixed) : buys_fixed[j][3] = "buy" /\ buys_fixed[j][7] = "USD"
    /\ \A j \in 1..Len(sells_fixed) : sells_fixed[j][3] = "sell" /\ sells_fixed[j][7] = "USD"
    /\ Len(buys_src) = Len(buys_fixed) /\ Len(sells_src) = Len(sells_fixed)
    /\ IsSorted(buys_src)
    /\ IsSorted(sells_src)

\* a call returned with legs of two different raw orders in buys_fixed
C9_Witness ==
    /\ fpc = "done"
    /\ \E j \in 1..Len(buys_src), k \in 1..Len(buys_src) : buys_src[j] < buys_src[k]
    /\ Len(sells_fixed) > 0

\* -------------------------------------------------------------------- C10
Elements(list) == {list[j] : j \in 1..Len(list)}

\* C10 as claimed: whenever a cost-basis file is given, in download mode as in
\* load mode, the buys handed to get_cost_basis hold every record of the file
C10_CostBasisMerged ==
    (cb_call.made /\ args.costbasis # "")
    => Elements(ParseCostBasisFile) \subseteq Elements(cb_call.buys)

\* ------------------------------------------------------------ C4, C5, C6
\* a walk down the ladder of one symbol: granularities in ladder order from
\* the finest, none but the last with a positive close
IsLadderWalk(seg, sym) ==
    /\ Len(seg) <= Len(LADDER)
    /\ \A i \in 1..Len(seg) :
        /\ seg[i].sym = sym
        /\ seg[i].tf = i
        /\ i < Len(seg) => seg[i].px <= 0

Found(seg) == Len(seg) > 0 /\ seg[Len(seg)].px > 0
Exhausted(seg) == Len(seg) = Len(LADDER) /\ seg[Len(seg)].px <= 0

IsTickerCall(e) == e.sym = <<"btc", "ticker">>

\* seg is a run of the BTC-pricing sub-routine that yields price
IsBtcWalk(seg, price) ==
    \/ /\ IsLadderWalk(seg, <<"btc", "usd">>)
       /\ Found(seg)
       /\ price = seg[Len(seg)].px
    \/ /\ Len(seg) = Len(LADDER) + 1
       /\ IsLadderWalk(SubSeq(seg, 1, Len(LADDER)), <<"btc", "usd">>)
       /\ Exhausted(SubSeq(seg, 1, Len(LADDER)))
       /\ IsTickerCall(seg[Len(seg)])
       /\ price = seg[Len(seg)].px

\* the lookups tr and the result ret are what the tiers prescribe for q
TiersFollowed(q, tr, ret) ==
    IF q = "" \/ q = "USD" THEN tr = <<>> /\ ret = One
    ELSE IF q \in STABLECOINS
    THEN /\ IsLadderWalk(tr, <<Lower(q), "usd">>)
         /\ \/ Found(tr) /\ ret = tr[Len(tr)].px
            \/ Exhausted(tr) /\ ret = One
    ELSE IF q = "BTC" THEN IsBtcWalk(tr, ret)
    ELSE \E a \in 0..Len(tr), b \in 0..Len(tr) :
          /\ a <= b
          /\ LET A == SubSeq(tr, 1, a)
                 B == SubSeq(tr, a + 1, b)
                 C == SubSeq(tr, b + 1, Len(tr))
             IN  /\ IsLadderWalk(A, <<Lower(q), "usd">>)
                 /\ \/ Found(A) /\ B = <<>> /\ C = <<>> /\ ret = A[a].px
                    \/ /\ Exhausted(A)
                       /\ IsLadderWalk(B, <<Lower(q), "btc">>)
                       /\ \/ Exhausted(B) /\ C = <<>> /\ ret = 0
                          \/ /\ Found(B)
                             /\ \E p \in {C[i].px : i \in 1..Len(C)} :
                                   IsBtcWalk(C, p) /\ ret = FMul(B[Len(B)].px, p)

Returned == rs.pc = "ret" /\ rs.entry = "usd_per_quote"

\* C4: when get_usd_per_quote returns, its lookups are the tiers in their fixed
\* order (USD, stablecoin ladder, BTC sub-routine, direct ladder, BTC bridge),
\* each ladder walked finest first and left at the first positive close, and the
\* result is that of the first tier that yielded a positive price (1.0 for USD
\* and for an unpriced stablecoin, 0.0 when every tier failed)
C4_TierOrder == Returned => TiersFollowed(rs.q, trace, rs.ret)

\* a bridged price: the direct ladder exhausted, a positive {q}BTC close found
\* and multiplied by the BTC price
C4_Witness ==
    /\ Returned
    /\ rs.tier = "bridge_btc"
    /\ rs.ret > 0
    /\ Len(trace) > 2 * Len(LADDER)

\* C5: get_usd_per_quote never raises and returns a non-negative number; a
\* fetch that exhausted its retries counts as not found and the walk goes on,
\* and a currency whose every tier failed is priced 0.0
C5_NeverRaises ==
    /\ rs.pc # "raised"
    /\ Returned => rs.ret >= 0
    /\ (Returned /\ rs.q \notin STABLECOINS \cup {"", "USD"}
          /\ \A i \in 1..Len(trace) : trace[i].px <= 0) => rs.ret = 0
    /\ \A i \in 1..Len(trace) :
          (trace[i].nreq = MAX_ATTEMPTS /\ trace[i].px <= 0 /\ i < Len(trace)
             /\ ~IsTickerCall(trace[i]))
          => /\ trace[i + 1].sym # trace[i].sym \/ trace[i + 1].tf = trace[i].tf + 1
             /\ trace[i + 1].sym # trace[i].sym => trace[i].tf = Len(LADDER)

\* a fetch exhausted its retries and the walk went on to return a price
C5_Witness ==
    /\ Returned
    /\ rs.ret > 0
    /\ \E i \in 1..Len(trace) :
          /\ trace[i].nreq = MAX_ATTEMPTS
          /\ <<trace[i].sym[1], trace[i].sym[2], LADDER[trace[i].tf]>> \notin DOMAIN PRICE_CACHE
          /\ ~IsTickerCall(trace[i])

\* C6 as claimed: every cache key is requested upstream at most once
C6_AtMostOnce == \A k \in DOMAIN reqs : reqs[k] <= 1

\* C6 as amended: a key that is in the cache is never requested upstream again
\* and keeps its candles, later queries being answered from the cache; a key
\* whose fetch failed is not cached and may be requested again
C6_CachedNeverRefetched ==
    [][\A k \in DOMAIN PRICE_CACHE :
          /\ k \in DOMAIN PRICE_CACHE'
          /\ PRICE_CACHE'[k] = PRICE_CACHE[k]
          /\ k \in DOMAIN reqs /\ reqs'[k] = reqs[k]]_vars

\* a later query answered from the cache
C6_Witness ==
    /\ nq = 2
    /\ \E i \in 1..Len(trace) :
          /\ trace[i].nreq = 0
          /\ <<trace[i].sym[1], trace[i].sym[2], LADDER[trace[i].tf]>> \in DOMAIN PRICE_CACHE


\* ------------------------------------------------------------- C11, C12
IsSortedByTime(list) ==
    \A j \in 1..Len(list), k \in 1..Len(list) : j < k => list[j][1] <= list[k][1]

\* C11: at every call of get_cost_basis the pipeline makes, in the download
\* branch and in the load branch, the sells and the buys passed are both
\* sorted ascending by time
C11_SortedAtCall ==
    cb_call.made => IsSortedByTime(cb_call.sells) /\ IsSortedByTime(cb_call.buys)

\* a download run whose normalized buys came out of fix_orders out of time
\* order, and get_cost_basis has been called
C11_Witness ==
    /\ cb_call.made
    /\ args.download
    /\ Len(main_buys_fixed) >= 2
    /\ ~IsSortedByTime(main_buys_fixed)

\* C12 as claimed: in load mode with a start year Y > 0 the buys handed to
\* get_cost_basis are exactly the loaded buys of 1 January of Y or later, in
\* their order, and the sells are the loaded sells
C12_StartYearFilter ==
    (cb_call.made /\ ~args.download /\ args.startyear > 0 /\ args.costbasis = "")
    => LET InYear(b) == b[1] >= YearStart(args.startyear)
       IN  /\ cb_call.buys = SelectSeq(saved.buys, InYear)
           /\ cb_call.sells = saved.sells


\* ------------------------------------------------------------------- C13
\* the lots 1.0 at 10,000 then 1.0 at 20,000 and the sell of 1.5 for 22,500,
\* in the model's units
ExampleBuys == << UsdLeg(1, "BTC", "buy", 2 * Q, 2 * One),
                  UsdLeg(2, "BTC", "buy", 2 * Q, 4 * One) >>
ExampleSells == << UsdLeg(3, "BTC", "sell", 3 * Q, 3 * One) >>

IsExample ==
    /\ alloc.pc # "idle"
    /\ alloc.sells = ExampleSells
    /\ Len(alloc.lots) = 2
    /\ \A i \in 1..2 : /\ alloc.lots[i].acquired_time = ExampleBuys[i][1]
                       /\ alloc.lots[i].unit_cost_usd = ExampleBuys[i][6]
                       /\ alloc.lots[i].asset = "BTC"

\* a step that consumes a lot takes, among the open lots of the sell's asset,
\* one of highest unit cost and, among those, of earliest acquisition; it
\* consumes min(sell remaining, lot remaining) and emits exactly one Disposal
HighestFirstStep ==
    (alloc.pc = "sell" /\ alloc'.pc = "sell" /\ alloc'.disposals # alloc.disposals
     /\ OpenLots(alloc.lots, alloc.sells[alloc.k]) # {})
    => LET open == OpenLots(alloc.lots, alloc.sells[alloc.k])
           d == alloc'.disposals[Len(alloc'.disposals)]
       IN  /\ Len(alloc'.disposals) = Len(alloc.disposals) + 1
           /\ d.lot \in open
           /\ \A j \in open :
                /\ alloc.lots[j].unit_cost_usd <= alloc.lots[d.lot].unit_cost_usd
                /\ alloc.lots[j].unit_cost_usd = alloc.lots[d.lot].unit_cost_usd
                   => alloc.lots[d.lot].acquired_time <= alloc.lots[j].acquired_time
           /\ d.amount = Min(alloc.remaining, alloc.lots[d.lot].remaining_amount)
           /\ alloc'.lots[d.lot].remaining_amount
                = alloc.lots[d.lot].remaining_amount - d.amount
           /\ \A j \in 1..Len(alloc.lots) :
                j # d.lot => alloc'.lots[j] = alloc.lots[j]

\* the example: 1.0 at cost 20,000 (gain -5,000), then 0.5 at cost 5,000
\* (gain 2,500), and 0.5 left open in the first lot
ExampleResult ==
    (IsExample /\ alloc.pc \in {"report", "done"})
    => /\ Len(alloc.disposals) = 2
       /\ alloc.disposals[1].lot = 2 /\ alloc.disposals[1].amount = 2 * Q
       /\ alloc.disposals[1].cost_basis_usd = 8 * Q
       /\ alloc.disposals[1].gain_usd = -(2 * Q)
       /\ alloc.disposals[2].lot = 1 /\ alloc.disposals[2].amount = Q
       /\ alloc.disposals[2].cost_basis_usd = 2 * Q
       /\ alloc.disposals[2].gain_usd = Q
       /\ alloc.lots[1].remaining_amount = Q
       /\ alloc.lots[2].remaining_amount = 0

C14_RetryPolicy ==
    (fc.pc = "done" /\ fc.nreq > 0)
    => /\ fc.nreq <= 3
       /\ \A i \in 1..fc.nreq :
            /\ (fc.script[i].kind = "http429" /\ i < 3) => fc.nreq > i
            /\ fc.script[i].kind = "http4xx" => fc.nreq = i


\* ------------------------------------------------------------------- C15
Dist(c, ts_ms) == Abs(c[1] - ts_ms)

\* C15: _closest_close returns the close of the candle at the smallest
\* absolute distance from ts, the first in the list among equally close ones,
\* and 0.0 for an empty list
C15_ClosestFirst ==
    cc.pc = "done"
    => IF cc.candles = <<>> THEN cc.ret = 0
       ELSE \E i \in 1..Len(cc.candles) :
              /\ cc.ret = cc.candles[i][2]
              /\ \A j \in 1..Len(cc.candles) :
                    /\ Dist(cc.candles[i], cc.ts_ms) <= Dist(cc.candles[j], cc.ts_ms)
                    /\ j < i => Dist(cc.candles[j], cc.ts_ms) > Dist(cc.candles[i], cc.ts_ms)

\* a call returned on two equally close candles with different closes
C15_Witness ==
    /\ cc.pc = "done"
    /\ Len(cc.candles) = 2
    /\ Dist(cc.candles[1], cc.ts_ms) = Dist(cc.candles[2], cc.ts_ms)
    /\ cc.candles[1][1] # cc.candles[2][1]
    /\ cc.candles[1][2] # cc.candles[2][2]
    /\ cc.ret = cc.candles[1][2]


\* ------------------------------------------------------------------- C16
\* C16: get_btc_price asks BTC/USD candles at 1m, 5m, 15m, 1h, 6h, 1d in that
\* order and returns the first strictly positive close; the ticker is asked
\* only after all six gave no positive price, and a failing ticker gives 0.0,
\* never an exception
C16_BtcLadderThenTicker ==
    rs.tier = "btc"
    => LET n == Len(trace)
       IN  /\ LADDER = <<"1m", "5m", "15m", "1h", "6h", "1d">>
           /\ rs.pc # "raised"
           /\ n <= Len(LADDER) + 1
           /\ \A i \in 1..n :
                /\ i <= Len(LADDER) => trace[i].sym = <<"btc", "usd">> /\ trace[i].tf = i
                /\ i > Len(LADDER) => IsTickerCall(trace[i])
                /\ i < n => trace[i].px <= 0
           /\ rs.pc = "ladder" => n = rs.tf - 1
           /\ rs.pc = "ticker" => n = Len(LADDER) /\ trace[n].px <= 0
           /\ rs.pc = "ret" => /\ n >= 1
                               /\ rs.ret = trace[n].px
                               /\ n <= Len(LADDER) => rs.ret > 0

\* the BTC fallback of fix_orders returned 0.0: six granularities without a
\* price, then a ticker request that failed
C16_Witness ==
    /\ rs.entry = "btc_price"
    /\ rs.tier = "btc"
    /\ rs.pc = "ret"
    /\ Len(trace) = Len(LADDER) + 1
    /\ IsTickerCall(trace[Len(trace)])
    /\ rs.ret = 0


\* ------------------------------------------------------------------- C17
\* the orders of the two returned lists that carry timestamp t
OrdersAt(list, t) == {j \in 1..Len(list) : list[j][1] = t}

FeeCounts(txn) ==
    Upper(txn.fee_currency) = PairSplit(txn.pair)[2] \/ txn.fee_currency = ""

\* what the claim gives for the cost of a buy or sell, before any rounding
NettedCost(txn) ==
    LET gross == FMul(Abs(txn.amount), txn.price)
    IN  IF ~FeeCounts(txn) THEN gross
        ELSE IF Lower(txn.type) = "buy" THEN gross + txn.fee
        ELSE gross - txn.fee

\* txn t of the call is a buy or sell with exactly one order, in the list of
\* its side, of the given cost and amount; any other txn has no order
OrderIs(t, Cost(_), Amount(_)) ==
    LET txn == tx.txns[t]
        side == Lower(txn.type)
        mine == IF side = "buy" THEN tx.buys ELSE tx.sells
        other == IF side = "buy" THEN tx.sells ELSE tx.buys
    IN  IF side \notin {"buy", "sell"}
        THEN OrdersAt(tx.buys, t) = {} /\ OrdersAt(tx.sells, t) = {}
        ELSE /\ OrdersAt(other, t) = {}
             /\ Cardinality(OrdersAt(mine, t)) = 1
             /\ \A j \in OrdersAt(mine, t) :
                  /\ mine[j][3] = side
                  /\ mine[j][4] = Cost(txn)
                  /\ mine[j][5] = Amount(txn)
                  /\ mine[j][5] >= 0

AbsAmount(txn) == Abs(txn.amount)
RoundedCost(txn) == Round10(NettedCost(txn))
RoundedAmount(txn) == Round10(Abs(txn.amount))

\* C17 as claimed: the fee is netted into the cost only when its currency is
\* the quote currency (or missing), cost = |amount| x price + fee for a buy,
\* - fee for a sell, the amount field is |amount|, and a transaction that is
\* no buy or sell is in neither list
C17_FeeNetting ==
    tx.pc \in {"loop", "done"}
    => \A t \in 1..(tx.i - 1) : OrderIs(t, NettedCost, AbsAmount)

\* C17 as amended: the same, with the cost and the amount field rounded to 10
\* decimal places
C17_FeeNettingRounded ==
    tx.pc \in {"loop", "done"}
    => \A t \in 1..(tx.i - 1) : OrderIs(t, RoundedCost, RoundedAmount)

\* a call returned a buy whose fee was netted because its currency is missing,
\* a sell whose fee was left out, and the rounding changed the cost
C17_Witness ==
    /\ tx.pc = "done"
    /\ Len(tx.txns) = 2
    /\ Lower(tx.txns[1].type) = "buy" /\ tx.txns[1].fee_currency = ""
    /\ Lower(tx.txns[2].type) = "sell" /\ ~FeeCounts(tx.txns[2])
    /\ NettedCost(tx.txns[1]) # RoundedCost(tx.txns[1])
    /\ Len(tx.buys) = 1 /\ Len(tx.sells) = 1


\* ------------------------------------------------------------------- C18
\* a response the call returns on, and the two kinds of failure
Succeeds(r) == r.kind = "ok" /\ JsonLoads(r.body).ok
Is429(r) == r.kind = "http" /\ r.code = 429
OtherHttpError(r) == r.kind = "http" /\ r.code # 429
NonHttpFailure(r) == r.kind # "http" /\ ~Succeeds(r)

\* C18: a _http_post call issues at most MAX_RETRIES (3) requests; it returns
\* the parsed body of the first successful response or raises, and never ends
\* otherwise; a 429 and a non-HTTP failure are retried while attempts remain,
\* any other HTTP error raises at once, and a failure on the last attempt raises
C18_PostRetries ==
    hp.pc # "idle"
    => LET n == Len(hp.log)
       IN  /\ MAX_RETRIES = 3
           /\ n <= MAX_RETRIES
           /\ hp.pc \in {"try", "returned", "raised"}
           /\ \A k \in 1..(n - 1) : Is429(hp.log[k]) \/ NonHttpFailure(hp.log[k])
           /\ hp.pc = "try" =>
                /\ n < MAX_RETRIES
                /\ n = hp.attempt - 1
                /\ n > 0 => Is429(hp.log[n]) \/ NonHttpFailure(hp.log[n])
           /\ hp.pc = "returned" =>
                /\ n >= 1
                /\ Succeeds(hp.log[n])
                /\ hp.ret = JsonLoads(hp.log[n].body).value
           /\ hp.pc = "raised" =>
                /\ n >= 1
                /\ ~Succeeds(hp.log[n])
                /\ OtherHttpError(hp.log[n]) \/ n = MAX_RETRIES

\* a call that was retried after a 429 and after a non-HTTP failure and
\* raised on its last attempt
C18_Witness ==
    /\ hp.pc = "raised"
    /\ Len(hp.log) = MAX_RETRIES
    /\ Is429(hp.log[1])
    /\ NonHttpFailure(hp.log[2])
    /\ Is429(hp.log[3])

\* ------------------------------------------------------------------- C19
\* C19: every nonce _next_nonce_ms returns is strictly greater than every
\* nonce it returned before, whatever the clock read, and _last_nonce_ms is
\* the nonce returned last
C19_NonceIncreasing ==
    /\ \A j \in 1..Len(issued), k \in 1..Len(issued) :
          j < k => StrInt(issued[j].nonce) < StrInt(issued[k].nonce)
    /\ issued # <<>> => last_nonce_ms = StrInt(issued[Len(issued)].nonce)

\* a nonce was returned on a clock reading equal to _last_nonce_ms, after one
\* returned on a reading behind an earlier one
C19_Witness ==
    /\ Len(issued) >= 2
    /\ \E k \in 2..Len(issued) : issued[k].now = issued[k].last
    /\ \E k \in 2..Len(issued) : issued[k].now < issued[k - 1].now

====
